---- MODULE Spec2Model ----
(***************************************************************************)
(* Model of the MOBIO dataset accessor (xbob/db/mobio/query.py): the query *)
(* methods of class Database over a small, fixed, pre-populated relational *)
(* store.  One behaviour is one call: Init draws the call (the operation   *)
(* and its arguments), the operation's action computes the result.         *)
(***************************************************************************)
EXTENDS Integers, Sequences, FiniteSets, TLC

\* ------------------------------------------------------------------ bounds

\* Longest model_ids sequence a caller passes.
MaxModelIds == 2

\* Longest ids / paths sequence given to paths() and reverse().
MaxIds == 3

\* ------------------------------------------------------- generic helpers

Range(s) == {s[i] : i \in 1..Len(s)}

RECURSIVE Perms(_)
\* Every sequence that lists each element of S exactly once.
Perms(S) == IF S = {} THEN {<<>>}
            ELSE UNION {{<<x>> \o p : p \in Perms(S \ {x})} : x \in S}

\* All sequences over S of length at most n.
SeqsUpTo(S, n) == UNION {[1..k -> S] : k \in 0..n}

\* Lexicographic "strictly less" on two integer tuples of the same length.
LexLess(a, b) ==
  \E i \in 1..Len(a) : a[i] < b[i] /\ \A j \in 1..(i - 1) : a[j] = b[j]

\* ------------------------------------------------- the relational store
\* The schema and rows live in models.py and the SQLite file, which the
\* accessor only reads.  The rows below are a small population of that schema.

GroupChoices == <<"dev", "eval", "world">>      \* ProtocolPurpose.group_choices
PurposeChoices == <<"enrol", "probe">>          \* ProtocolPurpose.purpose_choices
GenderChoices == <<"male", "female">>           \* Client.gender_choices
ClassChoices == <<"client", "impostor">>

SubworldTable ==
  << [id |-> 1, name |-> "onethird"],
     [id |-> 2, name |-> "twothirds"],
     [id |-> 3, name |-> "twothirds-subsampled"] >>

ProtocolTable ==
  << [id |-> 1, name |-> "male"],
     [id |-> 2, name |-> "female"] >>

ProtocolPurposeTable ==
  << [id |-> 1, protocol_id |-> 1, sgroup |-> "dev",  purpose |-> "enrol"],
     [id |-> 2, protocol_id |-> 1, sgroup |-> "dev",  purpose |-> "probe"],
     [id |-> 3, protocol_id |-> 2, sgroup |-> "eval", purpose |-> "enrol"],
     [id |-> 4, protocol_id |-> 2, sgroup |-> "eval", purpose |-> "probe"],
     [id |-> 5, protocol_id |-> 2, sgroup |-> "dev",  purpose |-> "probe"] >>

\* subworld: the ids of the Subworld rows the client belongs to.
ClientTable ==
  << [id |-> 1, gender |-> "male",   sgroup |-> "dev",   subworld |-> {}],
     [id |-> 2, gender |-> "male",   sgroup |-> "dev",   subworld |-> {}],
     [id |-> 3, gender |-> "female", sgroup |-> "eval",  subworld |-> {}],
     [id |-> 4, gender |-> "male",   sgroup |-> "world", subworld |-> {1, 2}],
     [id |-> 5, gender |-> "female", sgroup |-> "world", subworld |-> {2}] >>

\* path is the stem, a sequence of characters; protocol_purposes and subworld
\* are the association tables, as sets of row ids.
FileTable ==
  << [id |-> 1, client_id |-> 1, session_id |-> 2, speech_type |-> "p",
      shot_id |-> 1, device |-> "mobile", path |-> <<"a", "2">>,
      subworld |-> {}, protocol_purposes |-> {2}],
     [id |-> 2, client_id |-> 1, session_id |-> 1, speech_type |-> "p",
      shot_id |-> 1, device |-> "mobile", path |-> <<"a", "1">>,
      subworld |-> {}, protocol_purposes |-> {1}],
     [id |-> 3, client_id |-> 2, session_id |-> 1, speech_type |-> "l",
      shot_id |-> 1, device |-> "laptop", path |-> <<"b">>,
      subworld |-> {}, protocol_purposes |-> {2, 5}],
     [id |-> 4, client_id |-> 3, session_id |-> 1, speech_type |-> "p",
      shot_id |-> 1, device |-> "mobile", path |-> <<"c">>,
      subworld |-> {}, protocol_purposes |-> {3, 4}],
     [id |-> 5, client_id |-> 5, session_id |-> 1, speech_type |-> "r",
      shot_id |-> 1, device |-> "mobile", path |-> <<"e">>,
      subworld |-> {2}, protocol_purposes |-> {}],
     [id |-> 6, client_id |-> 4, session_id |-> 1, speech_type |-> "f",
      shot_id |-> 2, device |-> "mobile", path |-> <<"d">>,
      subworld |-> {1, 2}, protocol_purposes |-> {}] >>

\* TModel.id is a string; files is the File/TModel association.
TModelTable ==
  << [id |-> "t4", client_id |-> 4, files |-> {6}],
     [id |-> "t5", client_id |-> 5, files |-> {5}] >>

Rows(table) == Range(table)

ClientOf(f) == CHOOSE c \in Rows(ClientTable) : c.id = f.client_id
ProtocolOf(pp) == CHOOSE p \in Rows(ProtocolTable) : p.id = pp.protocol_id
FileById(i) == CHOOSE f \in Rows(FileTable) : f.id = i
ClientById(i) == CHOOSE c \in Rows(ClientTable) : c.id = i
SubworldNamesOf(ids) == {s.name : s \in {t \in Rows(SubworldTable) : t.id \in ids}}

\* Alphabetical rank of the string columns that order_by sorts on.
StrOrd ==
  [f |-> 1, l |-> 2, p |-> 3, r |-> 4, laptop |-> 1, mobile |-> 2, t4 |-> 1, t5 |-> 2]

\* --------------------------------------------------- argument values
\* A filter argument is None, a single value or a tuple/list of values.

None == [tag |-> "none"]
One(v) == [tag |-> "one", v |-> v]
Many(vs) == [tag |-> "many", vs |-> vs]

\* Python truthiness of a string-valued filter argument: None, '' and an
\* empty tuple are false.
Truthy(p) ==
  CASE p.tag = "none" -> FALSE
    [] p.tag = "one"  -> p.v /= ""
    [] p.tag = "many" -> p.vs /= <<>>

\* ---------------------------------------------------------- call results

NoResult == [kind |-> "none"]
Ok(v) == [kind |-> "ok", value |-> v]
InvalidArgument(d, v) == [kind |-> "InvalidArgument", dimension |-> d, value |-> v]
NotFound == [kind |-> "NotFound"]
MultipleResultsFound == [kind |-> "MultipleResultsFound"]

\* ------------------------------------------------- parameter validation

\* xbob.db.verification.utils: an unspecified argument becomes the default
\* (all valid values when no default is given), a single value becomes a
\* 1-tuple, and the first value outside valid_parameters raises.
check_parameters_for_validity(parameters, parameter_description, valid_parameters, default_parameters) ==
  LET p1 == IF Truthy(parameters) THEN parameters
            ELSE IF default_parameters /= None THEN default_parameters
            ELSE Many(valid_parameters)
      ps == IF p1.tag = "one" THEN <<p1.v>> ELSE p1.vs
      bad == {i \in 1..Len(ps) : ps[i] \notin Range(valid_parameters)}
  IN IF bad = {}
       THEN [failed |-> FALSE, vs |-> ps]
       ELSE LET i == CHOOSE k \in bad : \A j \in bad : k <= j
            IN [failed |-> TRUE, vs |-> <<>>,
                error |-> InvalidArgument(parameter_description, ps[i])]

\* The first check that raised, in call order; checks is a tuple of results
\* of check_parameters_for_validity.
FirstFailure(checks) ==
  LET bad == {i \in 1..Len(checks) : checks[i].failed}
  IN IF bad = {} THEN [failed |-> FALSE]
     ELSE checks[CHOOSE k \in bad : \A j \in bad : k <= j]

\* The tables read while validating: tables[i] is what evaluating the
\* arguments of check i reads, and no check after the first failure runs.
QueriedByChecks(checks, tables) ==
  LET bad == {i \in 1..Len(checks) : checks[i].failed}
      last == IF bad = {} THEN Len(checks) ELSE CHOOSE k \in bad : \A j \in bad : k <= j
  IN UNION {tables[i] : i \in 1..last}

protocol_names == [i \in 1..Len(ProtocolTable) |-> ProtocolTable[i].name]
subworld_names == [i \in 1..Len(SubworldTable) |-> SubworldTable[i].name]

\* ------------------------------------------------------------ File queries

\* The columns of order_by(File.client_id, File.session_id, File.speech_type,
\* File.shot_id, File.device).
FileKey(f) ==
  <<f.client_id, f.session_id, StrOrd[f.speech_type], f.shot_id, StrOrd[f.device]>>

RECURSIVE OrderByFileKey(_)
\* list(q.order_by(...)) of a set of File rows: each File once, ascending by
\* key; the list holds the Files' ids.
OrderByFileKey(S) ==
  IF S = {} THEN <<>>
  ELSE LET m == CHOOSE x \in S : \A y \in S : ~LexLess(FileKey(y), FileKey(x))
       IN <<m.id>> \o OrderByFileKey(S \ {m})

\* model_ids is None, a single id or an iterable of ids.
NormalizeModelIds(model_ids) ==
  CASE model_ids.tag = "none" -> <<>>
    [] model_ids.tag = "one"  -> <<model_ids.v>>
    [] model_ids.tag = "many" -> model_ids.vs

\* The Files of world clients; subworld, gender and model_ids are tuples,
\* an empty one placing no restriction.
ObjectsWorld(subworld, gender, model_ids) ==
  OrderByFileKey({f \in Rows(FileTable) :
    /\ ClientOf(f).sgroup = "world"
    /\ subworld /= <<>> => SubworldNamesOf(f.subworld) \cap Range(subworld) /= {}
    /\ gender /= <<>> => ClientOf(f).gender \in Range(gender)
    /\ model_ids /= <<>> => f.client_id \in Range(model_ids)})

\* File joined to Client, ProtocolPurpose and Protocol, one purpose.
JoinPurpose(protocol, groups, purpose) ==
  {f \in Rows(FileTable) :
    \E pp \in Rows(ProtocolPurposeTable) :
      /\ pp.id \in f.protocol_purposes
      /\ ProtocolOf(pp).name \in Range(protocol)
      /\ pp.sgroup \in Range(groups)
      /\ pp.purpose = purpose}

\* The enrol branch with the model_ids filter left out.
ObjectsEnrolIgnoringModelIds(protocol, groups, gender, model_ids) ==
  OrderByFileKey({f \in JoinPurpose(protocol, groups, "enrol") :
    gender /= <<>> => ClientOf(f).gender \in Range(gender)})

ObjectsEnrol(protocol, groups, gender, model_ids) ==
  OrderByFileKey({f \in JoinPurpose(protocol, groups, "enrol") :
    /\ gender /= <<>> => ClientOf(f).gender \in Range(gender)
    /\ model_ids /= <<>> => ClientOf(f).id \in Range(model_ids)})

ObjectsProbeClient(protocol, groups, gender, model_ids) ==
  OrderByFileKey({f \in JoinPurpose(protocol, groups, "probe") :
    /\ gender /= <<>> => ClientOf(f).gender \in Range(gender)
    /\ model_ids /= <<>> => ClientOf(f).id \in Range(model_ids)})

\* The impostor branch with the model_ids filter of the client branch.
ObjectsProbeImpostorAsClient(protocol, groups, gender, model_ids) ==
  OrderByFileKey({f \in JoinPurpose(protocol, groups, "probe") :
    /\ gender /= <<>> => ClientOf(f).gender \in Range(gender)
    /\ model_ids /= <<>> => ClientOf(f).id \in Range(model_ids)})

\* The impostor branch excluding whenever model_ids is non-empty.
ObjectsProbeImpostorAnyCount(protocol, groups, gender, model_ids) ==
  OrderByFileKey({f \in JoinPurpose(protocol, groups, "probe") :
    /\ gender /= <<>> => ClientOf(f).gender \in Range(gender)
    /\ model_ids /= <<>> => f.client_id \notin Range(model_ids)})

ObjectsProbeImpostor(protocol, groups, gender, model_ids) ==
  OrderByFileKey({f \in JoinPurpose(protocol, groups, "probe") :
    /\ gender /= <<>> => ClientOf(f).gender \in Range(gender)
    /\ Len(model_ids) = 1 => f.client_id \notin Range(model_ids)})

\* objects() with the world query indented under "if 'enrol' in purposes".
ObjectsRetvalWorldUnderEnrol(protocol, purposes, model_ids, groups, classes, subworld, gender) ==
  LET world == IF "world" \in Range(groups) /\ "enrol" \in Range(purposes)
                 THEN ObjectsWorld(subworld, gender, model_ids) ELSE <<>>
      devEval == "dev" \in Range(groups) \/ "eval" \in Range(groups)
      enrol == IF devEval /\ "enrol" \in Range(purposes)
                 THEN ObjectsEnrol(protocol, groups, gender, model_ids) ELSE <<>>
      probeClient ==
        IF devEval /\ "probe" \in Range(purposes) /\ "client" \in Range(classes)
          THEN ObjectsProbeClient(protocol, groups, gender, model_ids) ELSE <<>>
      probeImpostor ==
        IF devEval /\ "probe" \in Range(purposes) /\ "impostor" \in Range(classes)
          THEN ObjectsProbeImpostor(protocol, groups, gender, model_ids) ELSE <<>>
  IN world \o enrol \o probeClient \o probeImpostor

\* retval as objects() accumulates it, before the final list(set(retval)).
ObjectsRetval(protocol, purposes, model_ids, groups, classes, subworld, gender) ==
  LET world == IF "world" \in Range(groups)
                 THEN ObjectsWorld(subworld, gender, model_ids) ELSE <<>>
      devEval == "dev" \in Range(groups) \/ "eval" \in Range(groups)
      enrol == IF devEval /\ "enrol" \in Range(purposes)
                 THEN ObjectsEnrol(protocol, groups, gender, model_ids) ELSE <<>>
      probeClient ==
        IF devEval /\ "probe" \in Range(purposes) /\ "client" \in Range(classes)
          THEN ObjectsProbeClient(protocol, groups, gender, model_ids) ELSE <<>>
      probeImpostor ==
        IF devEval /\ "probe" \in Range(purposes) /\ "impostor" \in Range(classes)
          THEN ObjectsProbeImpostor(protocol, groups, gender, model_ids) ELSE <<>>
  IN world \o enrol \o probeClient \o probeImpostor

\* A return without the final set(): retval as accumulated.
ListOfSetKeepDuplicates(retval) == {retval}

\* list(set(retval)): the elements of retval, each once.  A File hashes by
\* object identity, so the iteration order of the set is not determined by
\* the program: every order is a possible outcome.
ListOfSet(retval) == Perms(Range(retval))

\* The six validations of objects(), in the order the code runs them.
ObjectsChecks(c) ==
  << check_parameters_for_validity(c.protocol, "protocol", protocol_names, None),
     check_parameters_for_validity(c.purposes, "purpose", PurposeChoices, None),
     check_parameters_for_validity(c.groups, "group", GroupChoices, None),
     check_parameters_for_validity(c.classes, "class", ClassChoices, None),
     check_parameters_for_validity(c.subworld, "subworld", subworld_names, Many(<<>>)),
     check_parameters_for_validity(c.gender, "gender", GenderChoices, Many(<<>>)) >>

\* The possible return values of objects() for call c, or the error raised.
ObjectsResults(c) ==
  LET chk == ObjectsChecks(c)
      err == FirstFailure(chk)
  IN IF err.failed THEN {err.error}
     ELSE {Ok(r) : r \in ListOfSet(ObjectsRetval(
             chk[1].vs, chk[2].vs, NormalizeModelIds(c.model_ids),
             chk[3].vs, chk[4].vs, chk[5].vs, chk[6].vs))}

\* The tables objects() reads: protocol_names() and subworld_names() while
\* validating, then the File queries of the branches that run.
ObjectsQueried(c) ==
  LET chk == ObjectsChecks(c)
      groups == Range(chk[3].vs)
      devEval == "dev" \in groups \/ "eval" \in groups
  IN QueriedByChecks(chk, <<{"Protocol"}, {}, {}, {}, {"Subworld"}, {}>>)
     \cup (IF FirstFailure(chk).failed THEN {}
           ELSE (IF "world" \in groups THEN {"File", "Client"} ELSE {})
                \cup (IF devEval /\ (\E pu \in Range(chk[2].vs) : pu \in {"enrol", "probe"})
                        THEN {"File", "Client", "ProtocolPurpose", "Protocol"} ELSE {}))

\* ----------------------------------------------------------- Client queries

RECURSIVE OrderById(_)
\* list(q.order_by(X.id)) of a set of rows: each row once, ascending by id.
OrderById(S) ==
  IF S = {} THEN <<>>
  ELSE LET m == CHOOSE x \in S : \A y \in S : x.id <= y.id
       IN <<m>> \o OrderById(S \ {m})

\* clients() with the group filter left out of the query.
ClientsQueryIgnoringGroups(protocol, groups, subworld, gender) ==
  OrderById({cl \in Rows(ClientTable) :
    /\ protocol /= <<>> => cl.gender \in Range(protocol)
    /\ subworld /= <<>> => SubworldNamesOf(cl.subworld) \cap Range(subworld) /= {}
    /\ gender /= <<>> => cl.gender \in Range(gender)})

\* The query of clients(): the Client rows, ordered by id.
ClientsQuery(protocol, groups, subworld, gender) ==
  OrderById({cl \in Rows(ClientTable) :
    /\ protocol /= <<>> => cl.gender \in Range(protocol)
    /\ groups /= <<>> => cl.sgroup \in Range(groups)
    /\ subworld /= <<>> => SubworldNamesOf(cl.subworld) \cap Range(subworld) /= {}
    /\ gender /= <<>> => cl.gender \in Range(gender)})

\* clients() passing groups to the query without validating it.
ClientsChecksGroupsUnchecked(c) ==
  << check_parameters_for_validity(c.protocol, "protocol", protocol_names, Many(<<>>)),
     [failed |-> FALSE, vs |-> IF c.groups.tag = "one" THEN <<c.groups.v>>
                               ELSE IF c.groups.tag = "many" THEN c.groups.vs ELSE <<>>],
     check_parameters_for_validity(c.subworld, "subworld", subworld_names, Many(<<>>)),
     check_parameters_for_validity(c.gender, "gender", GenderChoices, Many(<<>>)) >>

\* The four validations of clients(), in order.
ClientsChecks(c) ==
  << check_parameters_for_validity(c.protocol, "protocol", protocol_names, Many(<<>>)),
     check_parameters_for_validity(c.groups, "group", GroupChoices, Many(<<>>)),
     check_parameters_for_validity(c.subworld, "subworld", subworld_names, Many(<<>>)),
     check_parameters_for_validity(c.gender, "gender", GenderChoices, Many(<<>>)) >>

\* What clients() returns (a list of Client rows) or raises.
ClientsResult(c) ==
  LET chk == ClientsChecks(c)
      err == FirstFailure(chk)
  IN IF err.failed THEN err.error
     ELSE Ok(ClientsQuery(chk[1].vs, chk[2].vs, chk[3].vs, chk[4].vs))

ClientsQueried(c) ==
  LET chk == ClientsChecks(c)
  IN QueriedByChecks(chk, <<{"Protocol"}, {}, {"Subworld"}, {}>>)
     \cup (IF FirstFailure(chk).failed THEN {}
           ELSE {"Client"} \cup (IF chk[3].vs /= <<>> THEN {"Subworld"} ELSE {}))

\* What model_ids() returns or raises: [client.id for client in clients(...)].
ModelIdsResult(c) ==
  LET r == ClientsResult(c)
  IN IF r.kind = "ok" THEN Ok([i \in 1..Len(r.value) |-> r.value[i].id]) ELSE r

\* ------------------------------------------------------------ TModel queries

TModelsChecks(c) ==
  << check_parameters_for_validity(c.subworld, "subworld", subworld_names, Many(<<>>)),
     check_parameters_for_validity(c.gender, "gender", GenderChoices, Many(<<>>)) >>

RECURSIVE OrderByTModelId(_)
\* list(q.order_by(TModel.id)); TModel ids are strings.
OrderByTModelId(S) ==
  IF S = {} THEN <<>>
  ELSE LET m == CHOOSE x \in S : \A y \in S : StrOrd[x.id] <= StrOrd[y.id]
       IN <<m>> \o OrderByTModelId(S \ {m})

\* What tmodels() returns (a list of TModel rows) or raises; protocol and
\* groups are ignored.
TModelsResult(c) ==
  LET chk == TModelsChecks(c)
      err == FirstFailure(chk)
      subworld == chk[1].vs
      gender == chk[2].vs
  IN IF err.failed THEN err.error
     ELSE Ok(OrderByTModelId({t \in Rows(TModelTable) :
            /\ \E cl \in Rows(ClientTable) : cl.id = t.client_id
            /\ subworld /= <<>> =>
                 SubworldNamesOf(ClientById(t.client_id).subworld) \cap Range(subworld) /= {}
            /\ gender /= <<>> => ClientById(t.client_id).gender \in Range(gender)}))

TModelsQueried(c) ==
  LET chk == TModelsChecks(c)
  IN QueriedByChecks(chk, <<{"Subworld"}, {}>>)
     \cup (IF FirstFailure(chk).failed THEN {}
           ELSE {"TModel", "Client"} \cup (IF chk[1].vs /= <<>> THEN {"Subworld"} ELSE {}))

\* What tobjects() returns (a list of File ids, ordered by key) or raises.
TObjectsResult(c) ==
  LET chk == TModelsChecks(c)
      err == FirstFailure(chk)
      subworld == chk[1].vs
      gender == chk[2].vs
      model_ids == NormalizeModelIds(c.model_ids)
  IN IF err.failed THEN err.error
     ELSE Ok(OrderByFileKey({f \in Rows(FileTable) :
            /\ subworld /= <<>> => SubworldNamesOf(f.subworld) \cap Range(subworld) /= {}
            /\ \E t \in Rows(TModelTable) :
                 /\ f.id \in t.files
                 /\ model_ids /= <<>> => t.id \in Range(model_ids)
            /\ gender /= <<>> => ClientOf(f).gender \in Range(gender)}))

TObjectsQueried(c) ==
  LET chk == TModelsChecks(c)
  IN QueriedByChecks(chk, <<{"Subworld"}, {}>>)
     \cup (IF FirstFailure(chk).failed THEN {}
           ELSE {"File", "TModel"} \cup (IF chk[1].vs /= <<>> THEN {"Subworld"} ELSE {})
                                   \cup (IF chk[2].vs /= <<>> THEN {"Client"} ELSE {}))

\* ------------------------------------------------------ paths and reverse

\* A prefix or suffix is None or a string (a sequence of characters).
StrOrEmpty(x) == IF x = None THEN <<>> ELSE x.v

\* File.make_path: prefix + stem + suffix.
make_path(f, prefix, suffix) == StrOrEmpty(prefix) \o f.path \o StrOrEmpty(suffix)

RECURSIVE PathsLoop(_, _, _, _)
\* for p in ids: retval.extend([k.make_path(prefix, suffix) for k in fobj if k.id == p])
PathsLoop(ids, fobj, prefix, suffix) ==
  IF ids = <<>> THEN <<>>
  ELSE LET hit == SelectSeq(fobj, LAMBDA k : k.id = Head(ids))
       IN [i \in 1..Len(hit) |-> make_path(hit[i], prefix, suffix)]
            \o PathsLoop(Tail(ids), fobj, prefix, suffix)

\* paths() returning the paths in the order the query yields the Files.
PathsInQueryOrder(ids, prefix, suffix) ==
  LET fobj == SelectSeq(FileTable, LAMBDA f : f.id \in Range(ids))
  IN [i \in 1..Len(fobj) |-> make_path(fobj[i], prefix, suffix)]

\* Database.paths: fobj is the query File.id.in_(ids), in table order.
Paths(ids, prefix, suffix) ==
  LET fobj == SelectSeq(FileTable, LAMBDA f : f.id \in Range(ids))
  IN PathsLoop(ids, fobj, prefix, suffix)

RECURSIVE ReverseLoop(_, _)
\* for p in paths: retval.extend([k.id for k in fobj if k.path == p])
ReverseLoop(paths, fobj) ==
  IF paths = <<>> THEN <<>>
  ELSE LET hit == SelectSeq(fobj, LAMBDA k : k.path = Head(paths))
       IN [i \in 1..Len(hit) |-> hit[i].id] \o ReverseLoop(Tail(paths), fobj)

\* reverse() returning the ids in the order the query yields the Files.
ReverseInQueryOrder(paths) ==
  LET fobj == SelectSeq(FileTable, LAMBDA f : f.path \in Range(paths))
  IN [i \in 1..Len(fobj) |-> fobj[i].id]

\* Database.reverse: fobj is the query File.path.in_(paths), in table order.
Reverse(paths) ==
  LET fobj == SelectSeq(FileTable, LAMBDA f : f.path \in Range(paths))
  IN ReverseLoop(paths, fobj)

\* -------------------------------------------------------- singular lookups

\* Query.one(): the only row, NoResultFound or MultipleResultsFound.
OneRow(rows) ==
  IF rows = {} THEN NotFound
  ELSE IF Cardinality(rows) = 1 THEN Ok(CHOOSE r \in rows : TRUE)
  ELSE MultipleResultsFound

\* Query.first(): a row, or None when there is none.
FirstRow(rows) ==
  IF rows = {} THEN Ok(None) ELSE Ok(CHOOSE r \in rows : TRUE)

has_client_id(id) == Cardinality({c \in Rows(ClientTable) : c.id = id}) /= 0

\* client() with first() in place of one().
ClientLookupFirst(id) == FirstRow({c \in Rows(ClientTable) : c.id = id})

\* Database.client
ClientLookup(id) == OneRow({c \in Rows(ClientTable) : c.id = id})

has_protocol(name) == Cardinality({p \in Rows(ProtocolTable) : p.name = name}) /= 0

\* Database.protocol
ProtocolLookup(name) == OneRow({p \in Rows(ProtocolTable) : p.name = name})

\* ------------------------------------------------------------- dumplist

\* The objects() call dumplist makes: args.client goes in as model_ids,
\* subworld and gender are left unspecified.
DumplistObjectsCall(args) ==
  [op |-> "objects", protocol |-> args.protocol, purposes |-> args.purposes,
   model_ids |-> args.client, groups |-> args.groups, classes |-> args.classes,
   subworld |-> None, gender |-> None]

\* dumplist writing to sys.stdout whatever args.selftest says.
DumplistOutputIgnoringSelftest(args, files) ==
  [i \in 1..Len(files) |->
     make_path(FileById(files[i]), args.directory, args.extension) \o <<"\n">>]

\* What dumplist writes to standard output for the list objects() returned:
\* one line per File, or nothing when output is the null stream.
DumplistOutput(args, files) ==
  IF args.selftest THEN <<>>
  ELSE [i \in 1..Len(files) |->
          make_path(FileById(files[i]), args.directory, args.extension) \o <<"\n">>]

\* ------------------------------------------------------- the calls drawn

Bogus == "bogus"

ProtocolArgs == {None, One("male"), One("female"), Many(<<"male", "female">>), One(Bogus)}
PurposesArgs == {None, One("enrol"), One("probe"), Many(<<"enrol", "probe">>), One(Bogus)}
GroupsArgs ==
  {None, One("world"), One("dev"), One("eval"), Many(<<"dev", "eval">>),
   Many(<<"world", "dev">>), One(Bogus)}
ClassesArgs ==
  {None, One("client"), One("impostor"), Many(<<"client", "impostor">>), One(Bogus)}
SubworldArgs == {None, One("onethird"), One(Bogus)}
GenderArgs == {None, One("female"), One(Bogus)}

\* Client ids a caller names as models: two dev clients and a world client.
ModelIdChoices == {1, 2, 4}
ModelIdsArgs ==
  {None} \cup {One(m) : m \in ModelIdChoices}
         \cup {Many(s) : s \in SeqsUpTo(ModelIdChoices, MaxModelIds)}

ObjectsCalls ==
  [op : {"objects"}, protocol : ProtocolArgs, purposes : PurposesArgs,
   model_ids : ModelIdsArgs, groups : GroupsArgs, classes : ClassesArgs,
   subworld : SubworldArgs, gender : GenderArgs]

\* clients() and model_ids() take the same arguments.
ClientsGroupsArgs ==
  {None, One("world"), One("dev"), Many(<<"dev", "eval">>), Many(<<"world", "dev">>), One(Bogus)}
ClientsSubworldArgs == {None, One("onethird"), One("twothirds"), One(Bogus)}
ClientsGenderArgs == {None, One("male"), One("female"), One(Bogus)}
ClientsCalls ==
  [op : {"clients", "model_ids"}, protocol : ProtocolArgs, groups : ClientsGroupsArgs,
   subworld : ClientsSubworldArgs, gender : ClientsGenderArgs]

\* tmodels() and tobjects(); an omitted subworld is 'onethird'.
TModelsCalls ==
  [op : {"tmodels"}, protocol : {None, One(Bogus)}, groups : {None, One(Bogus)},
   subworld : ClientsSubworldArgs, gender : ClientsGenderArgs]
TModelIdsArgs == {None, One("t4"), Many(<<"t5">>), Many(<<"t4", "t5">>)}
TObjectsCalls ==
  [op : {"tobjects"}, protocol : {None, One(Bogus)}, model_ids : TModelIdsArgs,
   groups : {None, One(Bogus)}, subworld : ClientsSubworldArgs, gender : ClientsGenderArgs]

\* File ids given to paths(): those of the six Files and one that is unknown.
FileIdChoices == {f.id : f \in Rows(FileTable)} \cup {7}
PrefixArgs == {None, One(<<>>), One(<<"d", "/">>)}
SuffixArgs == {None, One(<<".", "w">>)}
PathsCalls ==
  [op : {"paths"}, ids : SeqsUpTo(FileIdChoices, MaxIds),
   prefix : PrefixArgs, suffix : SuffixArgs]

\* Stems given to reverse(): those of the Files, an unknown one, and a stem
\* with a prefix in front.
StemChoices ==
  {f.path : f \in Rows(FileTable)} \cup {<<"z">>, <<"d", "/", "b">>}
ReverseCalls == [op : {"reverse"}, paths : SeqsUpTo(StemChoices, MaxIds)]

\* Client ids looked up: those of the five Clients and one that is unknown.
ClientIdChoices == {c.id : c \in Rows(ClientTable)} \cup {9}
ProtocolNameChoices == {"male", "female", Bogus, ""}
LookupCalls ==
  [op : {"client", "has_client_id"}, id : ClientIdChoices]
    \cup [op : {"protocol", "has_protocol"}, name : ProtocolNameChoices]

\* dumplist(args): the command line gives one value per filter, '' when the
\* option is absent, and an integer client or None.
DumplistCalls ==
  [op : {"dumplist"},
   protocol : {One(""), One("male"), One("female"), One(Bogus)},
   purposes : {One(""), One("enrol"), One("probe")},
   client : {None, One(1), One(2)},
   groups : {One(""), One("world"), One("dev"), One("eval")},
   classes : {One(""), One("client"), One("impostor")},
   directory : {One(<<>>), One(<<"d", "/">>)},
   extension : {One(<<>>), One(<<".", "w">>)},
   selftest : BOOLEAN]

Calls ==
  ObjectsCalls \cup ClientsCalls \cup TModelsCalls \cup TObjectsCalls
    \cup PathsCalls \cup ReverseCalls \cup LookupCalls \cup DumplistCalls

\* ------------------------------------------------------------ the machine

VARIABLES
  pc,      \* "call": the call is about to run; "done": it has returned or raised
  call,    \* the operation called and its arguments
  result,  \* what the call returned or raised
  queried, \* the tables the call has read
  r,       \* dumplist: the list objects() returned
  stdout   \* the lines written to standard output

vars == <<pc, call, result, queried, r, stdout>>

Init ==
  /\ pc = "call"
  /\ call \in Calls
  /\ result = NoResult
  /\ queried = {}
  /\ r = <<>>
  /\ stdout = <<>>

\* Database.objects
Objects ==
  /\ pc = "call"
  /\ call.op = "objects"
  /\ result' \in ObjectsResults(call)
  /\ queried' = ObjectsQueried(call)
  /\ pc' = "done"
  /\ UNCHANGED <<call, r, stdout>>

\* Database.clients
Clients ==
  /\ pc = "call"
  /\ call.op = "clients"
  /\ result' = ClientsResult(call)
  /\ queried' = ClientsQueried(call)
  /\ pc' = "done"
  /\ UNCHANGED <<call, r, stdout>>

\* Database.model_ids
ModelIds ==
  /\ pc = "call"
  /\ call.op = "model_ids"
  /\ result' = ModelIdsResult(call)
  /\ queried' = ClientsQueried(call)
  /\ pc' = "done"
  /\ UNCHANGED <<call, r, stdout>>

\* Database.tmodels
TModels ==
  /\ pc = "call"
  /\ call.op = "tmodels"
  /\ result' = TModelsResult(call)
  /\ queried' = TModelsQueried(call)
  /\ pc' = "done"
  /\ UNCHANGED <<call, r, stdout>>

\* Database.tobjects
TObjects ==
  /\ pc = "call"
  /\ call.op = "tobjects"
  /\ result' = TObjectsResult(call)
  /\ queried' = TObjectsQueried(call)
  /\ pc' = "done"
  /\ UNCHANGED <<call, r, stdout>>

\* Database.paths
PathsCall ==
  /\ pc = "call"
  /\ call.op = "paths"
  /\ result' = Ok(Paths(call.ids, call.prefix, call.suffix))
  /\ queried' = {"File"}
  /\ pc' = "done"
  /\ UNCHANGED <<call, r, stdout>>

\* Database.reverse
ReverseCall ==
  /\ pc = "call"
  /\ call.op = "reverse"
  /\ result' = Ok(Reverse(call.paths))
  /\ queried' = {"File"}
  /\ pc' = "done"
  /\ UNCHANGED <<call, r, stdout>>

\* Database.client
ClientCall ==
  /\ pc = "call"
  /\ call.op = "client"
  /\ result' = ClientLookup(call.id)
  /\ queried' = {"Client"}
  /\ pc' = "done"
  /\ UNCHANGED <<call, r, stdout>>

\* Database.has_client_id
HasClientIdCall ==
  /\ pc = "call"
  /\ call.op = "has_client_id"
  /\ result' = Ok(has_client_id(call.id))
  /\ queried' = {"Client"}
  /\ pc' = "done"
  /\ UNCHANGED <<call, r, stdout>>

\* Database.protocol
ProtocolCall ==
  /\ pc = "call"
  /\ call.op = "protocol"
  /\ result' = ProtocolLookup(call.name)
  /\ queried' = {"Protocol"}
  /\ pc' = "done"
  /\ UNCHANGED <<call, r, stdout>>

\* Database.has_protocol
HasProtocolCall ==
  /\ pc = "call"
  /\ call.op = "has_protocol"
  /\ result' = Ok(has_protocol(call.name))
  /\ queried' = {"Protocol"}
  /\ pc' = "done"
  /\ UNCHANGED <<call, r, stdout>>

\* dumplist: an error of objects() propagates before anything is written.
Dumplist ==
  /\ pc = "call"
  /\ call.op = "dumplist"
  /\ \E res \in ObjectsResults(DumplistObjectsCall(call)) :
       IF res.kind = "ok"
         THEN /\ r' = res.value
              /\ stdout' = DumplistOutput(call, res.value)
              /\ result' = Ok(0)
         ELSE /\ r' = <<>>
              /\ stdout' = <<>>
              /\ result' = res
  /\ queried' = ObjectsQueried(DumplistObjectsCall(call))
  /\ pc' = "done"
  /\ UNCHANGED call

Next ==
  \/ Objects
  \/ Clients
  \/ ModelIds
  \/ TModels
  \/ TObjects
  \/ PathsCall
  \/ ReverseCall
  \/ ClientCall
  \/ HasClientIdCall
  \/ ProtocolCall
  \/ HasProtocolCall
  \/ Dumplist

Spec == Init /\ [][Next]_vars

\* ------------------------------------------------ the claims' vocabulary

\* The values a filter argument names; none when it is unspecified.
Given(p) ==
  CASE p.tag = "none" -> {}
    [] p.tag = "one"  -> IF p.v = "" THEN {} ELSE {p.v}
    [] p.tag = "many" -> Range(p.vs)

\* An unspecified filter stands for the full legal set.
Requested(p, legal) == IF Given(p) = {} THEN legal ELSE Given(p)

\* The ids in model_ids, and how many entries it has.
ModelIdSet(m) ==
  CASE m.tag = "none" -> {}
    [] m.tag = "one"  -> {m.v}
    [] m.tag = "many" -> Range(m.vs)
ModelIdCount(m) ==
  CASE m.tag = "none" -> 0
    [] m.tag = "one"  -> 1
    [] m.tag = "many" -> Len(m.vs)

LegalProtocols == {"male", "female"}
LegalPurposes == {"enrol", "probe"}
LegalGroups == {"dev", "eval", "world"}
LegalClasses == {"client", "impostor"}
LegalSubworlds == {"onethird", "twothirds", "twothirds-subsampled"}
LegalGenders == {"male", "female"}

ObjectsReturned == pc = "done" /\ call.op = "objects" /\ result.kind = "ok"
ReturnedIds == Range(result.value)

\* The sets of File ids objects() can return for call c.
ObjectsIdSets(c) == {Range(o.value) : o \in {x \in ObjectsResults(c) : x.kind = "ok"}}

\* Files tied to a ProtocolPurpose of a requested protocol and group with the
\* given purpose, whose client has a requested gender.
PurposeFileIds(c, purpose) ==
  {f.id : f \in {g \in Rows(FileTable) :
     /\ \E pp \in Rows(ProtocolPurposeTable) :
          /\ pp.id \in g.protocol_purposes
          /\ pp.purpose = purpose
          /\ pp.sgroup \in Requested(c.groups, LegalGroups)
          /\ \E pr \in Rows(ProtocolTable) :
               pr.id = pp.protocol_id /\ pr.name \in Requested(c.protocol, LegalProtocols)
     /\ Given(c.gender) /= {} =>
          \E cl \in Rows(ClientTable) : cl.id = g.client_id /\ cl.gender \in Given(c.gender)}}

FilesOfClients(ids) == {f.id : f \in {g \in Rows(FileTable) : g.client_id \in ids}}

\* Files of world clients, narrowed by subworld, gender and model_ids.
WorldFileIds(c) ==
  {f.id : f \in {g \in Rows(FileTable) :
     /\ \E cl \in Rows(ClientTable) :
          /\ cl.id = g.client_id
          /\ cl.sgroup = "world"
          /\ Given(c.gender) /= {} => cl.gender \in Given(c.gender)
     /\ Given(c.subworld) /= {} =>
          \E sw \in Rows(SubworldTable) : sw.id \in g.subworld /\ sw.name \in Given(c.subworld)
     /\ ModelIdSet(c.model_ids) /= {} => g.client_id \in ModelIdSet(c.model_ids)}}

GroupsWithinDevEval(c) == Given(c.groups) /= {} /\ Given(c.groups) \subseteq {"dev", "eval"}

\* ------------------------------------------------------------------ C1
\* C1: the list objects() returns holds each File id at most once, for every
\* legal argument combination.
C1_NoDuplicateFileIds ==
  ObjectsReturned =>
    \A i, j \in 1..Len(result.value) :
      i /= j => result.value[i] /= result.value[j]

\* Both classes are requested for dev probes and no model is named, so the
\* client branch and the impostor branch select the same two Files.
C1_Witness ==
  /\ ObjectsReturned
  /\ call.groups = One("dev") /\ call.purposes = One("probe")
  /\ call.classes = Many(<<"client", "impostor">>) /\ call.model_ids = None
  /\ call.protocol = One("male") /\ call.gender = None
  /\ ReturnedIds = {1, 3}

\* ------------------------------------------------------------------ C2
\* C2: the list objects() returns is sorted ascending by (client id, session
\* id, speech type, shot id, device): no element's key is greater than the
\* key of the element after it.
C2_SortedByFileKey ==
  ObjectsReturned =>
    \A i \in 1..(Len(result.value) - 1) :
      ~LexLess(FileKey(FileById(result.value[i + 1])), FileKey(FileById(result.value[i])))

\* ------------------------------------------------------------------ C3
\* C3: with groups = 'world' alone, objects() returns the Files of world
\* clients narrowed by subworld, gender and model_ids, and the same set for
\* every other legal choice of purposes and classes.
C3_WorldIgnoresPurposeAndClass ==
  (ObjectsReturned /\ Given(call.groups) = {"world"}) =>
    /\ ReturnedIds = WorldFileIds(call)
    /\ \A pu \in PurposesArgs, cl \in ClassesArgs :
         (Given(pu) \subseteq LegalPurposes /\ Given(cl) \subseteq LegalClasses) =>
           ObjectsIdSets([call EXCEPT !.purposes = pu, !.classes = cl]) = {ReturnedIds}

C3_Witness ==
  /\ ObjectsReturned
  /\ call.groups = One("world") /\ call.purposes = One("probe")
  /\ call.classes = One("impostor") /\ call.subworld = One("onethird")
  /\ call.model_ids = Many(<<4>>)
  /\ ReturnedIds = {6}

\* ------------------------------------------------------------------ C4
\* C4: for dev/eval groups, purposes = 'probe' and classes = 'impostor', a
\* model_ids of exactly one entry m removes the Files of client m from the
\* matching probe Files; an empty model_ids or one of several entries removes
\* nothing, and the result is the one returned without model_ids.
C4_ImpostorExclusion ==
  (/\ ObjectsReturned
   /\ GroupsWithinDevEval(call)
   /\ Given(call.purposes) = {"probe"}
   /\ Given(call.classes) = {"impostor"}) =>
    IF ModelIdCount(call.model_ids) = 1
      THEN ReturnedIds =
             PurposeFileIds(call, "probe") \ FilesOfClients(ModelIdSet(call.model_ids))
      ELSE /\ ReturnedIds = PurposeFileIds(call, "probe")
           /\ ObjectsIdSets([call EXCEPT !.model_ids = None]) = {ReturnedIds}

\* One model is named and its probe File is left out of a non-empty result.
C4_Witness ==
  /\ ObjectsReturned
  /\ call.groups = One("dev") /\ call.purposes = One("probe")
  /\ call.classes = One("impostor") /\ call.model_ids = Many(<<1>>)
  /\ call.protocol = None /\ call.gender = None
  /\ 1 \in PurposeFileIds(call, "probe")
  /\ ReturnedIds = {3}

\* ------------------------------------------------------------------ C5
\* C5: for dev/eval groups and purposes = 'enrol', or purposes = 'probe' with
\* classes = 'client', a File is returned iff it is tied to a ProtocolPurpose
\* of a requested protocol and group with that purpose, its client's gender
\* is requested (when gender is given) and its client id is in model_ids
\* (when model_ids is non-empty).
C5_EnrolAndProbeClientSelection ==
  (ObjectsReturned /\ GroupsWithinDevEval(call)) =>
    LET narrow(S) == IF ModelIdSet(call.model_ids) = {} THEN S
                     ELSE S \cap FilesOfClients(ModelIdSet(call.model_ids))
    IN /\ Given(call.purposes) = {"enrol"} =>
            ReturnedIds = narrow(PurposeFileIds(call, "enrol"))
       /\ (Given(call.purposes) = {"probe"} /\ Given(call.classes) = {"client"}) =>
            ReturnedIds = narrow(PurposeFileIds(call, "probe"))

\* A probe/client call narrowed by protocol, gender and model_ids at once.
C5_Witness ==
  /\ ObjectsReturned
  /\ call.groups = Many(<<"dev", "eval">>) /\ call.purposes = One("probe")
  /\ call.classes = One("client") /\ call.protocol = One("female")
  /\ call.gender = One("female") /\ call.model_ids = None
  /\ PurposeFileIds([call EXCEPT !.gender = None], "probe") = {3, 4}
  /\ ReturnedIds = {4}

\* ------------------------------------------------------------------ C6
ExistingFileIds == {f.id : f \in Rows(FileTable)}
StemOfFile(i) == (CHOOSE f \in Rows(FileTable) : f.id = i).path
PathsReturned == pc = "done" /\ call.op = "paths" /\ result.kind = "ok"

\* C6: paths(ids, prefix, suffix) returns prefix + stem + suffix of the
\* existing Files in the order their ids appear in ids; an unknown id adds no
\* entry and raises nothing, and no other File's path is in the output.
C6_PathsInInputOrder ==
  (pc = "done" /\ call.op = "paths") =>
    LET known == SelectSeq(call.ids, LAMBDA i : i \in ExistingFileIds)
        pre == IF call.prefix = None THEN <<>> ELSE call.prefix.v
        suf == IF call.suffix = None THEN <<>> ELSE call.suffix.v
    IN /\ result.kind = "ok"
       /\ Len(result.value) = Len(known)
       /\ \A i \in 1..Len(known) :
            result.value[i] = pre \o StemOfFile(known[i]) \o suf

\* ids names File 3 before File 1 with an unknown id between them.
C6_Witness ==
  /\ PathsReturned
  /\ call.ids = <<3, 7, 1>>
  /\ call.prefix = One(<<"d", "/">>) /\ call.suffix = One(<<".", "w">>)
  /\ result.value = << <<"d", "/", "b", ".", "w">>, <<"d", "/", "a", "2", ".", "w">> >>

\* ------------------------------------------------------------------ C7
\* C7: for ids that all exist as Files, reverse applied to the stems that
\* paths(ids) returns (no prefix, no suffix) gives back ids, in that order.
C7_ReverseInvertsPaths ==
  (/\ PathsReturned
   /\ call.prefix \in {None, One(<<>>)} /\ call.suffix = None
   /\ Range(call.ids) \subseteq ExistingFileIds) =>
    Reverse(result.value) = call.ids

\* Two distinct existing ids, given against the order of the table.
C7_Witness ==
  /\ PathsReturned
  /\ call.prefix = None /\ call.suffix = None
  /\ call.ids = <<3, 1>>
  /\ result.value = << <<"b">>, <<"a", "2">> >>

\* ------------------------------------------------------------------ C8
\* The Clients that satisfy every given filter of the call.
MatchingClients(c) ==
  {cl \in Rows(ClientTable) :
    /\ Given(c.protocol) /= {} => cl.gender \in Given(c.protocol)
    /\ Given(c.groups) /= {} => cl.sgroup \in Given(c.groups)
    /\ Given(c.subworld) /= {} =>
         \E sw \in Rows(SubworldTable) : sw.id \in cl.subworld /\ sw.name \in Given(c.subworld)
    /\ Given(c.gender) /= {} => cl.gender \in Given(c.gender)}

\* C8: clients(...) returns exactly the Clients that satisfy every given
\* filter, each once, ascending by id; model_ids(...) with the same arguments
\* returns exactly the ids of that list, in the same order.
C8_ClientsAndModelIds ==
  /\ (pc = "done" /\ call.op = "clients" /\ result.kind = "ok") =>
       /\ Range(result.value) = MatchingClients(call)
       /\ \A i \in 1..(Len(result.value) - 1) : result.value[i].id < result.value[i + 1].id
  /\ (pc = "done" /\ call.op = "model_ids" /\ result.kind = "ok") =>
       /\ Range(result.value) = {cl.id : cl \in MatchingClients(call)}
       /\ \A i \in 1..(Len(result.value) - 1) : result.value[i] < result.value[i + 1]
       /\ LET cs == ClientsResult(call)
          IN /\ cs.kind = "ok"
             /\ Len(cs.value) = Len(result.value)
             /\ \A i \in 1..Len(cs.value) : cs.value[i].id = result.value[i]

\* model_ids(groups='dev') returns their ids.
C8_Witness ==
  /\ pc = "done" /\ call.op = "model_ids" /\ result.kind = "ok"
  /\ call.groups = One("dev") /\ call.protocol = None
  /\ call.subworld = None /\ call.gender = None
  /\ result.value = <<1, 2>>

\* ------------------------------------------------------------------ C9
\* The (dimension, value) pairs of a call whose value is outside the legal
\* set of a dimension the operation validates.
Illegal(p, dimension, legal) == {<<dimension, v>> : v \in Given(p) \ legal}
Offending(c) ==
  CASE c.op = "objects" ->
         Illegal(c.protocol, "protocol", LegalProtocols)
           \cup Illegal(c.purposes, "purpose", LegalPurposes)
           \cup Illegal(c.groups, "group", LegalGroups)
           \cup Illegal(c.classes, "class", LegalClasses)
           \cup Illegal(c.subworld, "subworld", LegalSubworlds)
           \cup Illegal(c.gender, "gender", LegalGenders)
    [] c.op = "clients" ->
         Illegal(c.protocol, "protocol", LegalProtocols)
           \cup Illegal(c.groups, "group", LegalGroups)
           \cup Illegal(c.subworld, "subworld", LegalSubworlds)
           \cup Illegal(c.gender, "gender", LegalGenders)
    [] c.op \in {"tmodels", "tobjects"} ->
         Illegal(c.subworld, "subworld", LegalSubworlds)
           \cup Illegal(c.gender, "gender", LegalGenders)

\* C9: in clients, tmodels, objects and tobjects a value outside the legal
\* set of a validated dimension makes the call fail with InvalidArgument
\* naming that dimension and value, before any File or Client query: no list
\* is returned.
C9_InvalidArgumentBeforeQuery ==
  (/\ pc = "done"
   /\ call.op \in {"clients", "tmodels", "objects", "tobjects"}
   /\ Offending(call) /= {}) =>
    /\ result.kind = "InvalidArgument"
    /\ <<result.dimension, result.value>> \in Offending(call)
    /\ queried \cap {"File", "Client", "TModel"} = {}

\* clients(groups=<unknown group>) has raised.
C9_Witness ==
  /\ pc = "done" /\ call.op = "clients"
  /\ call.groups = One(Bogus) /\ call.protocol = None
  /\ call.subworld = None /\ call.gender = None
  /\ result = InvalidArgument("group", Bogus)

\* ------------------------------------------------------------------ C10
\* C10: protocol(name) and client(id) fail with NotFound when no row has the
\* key, return the single row when one has, and never match more than one
\* row; has_protocol / has_client_id are true exactly when the lookup
\* succeeds.
C10_SingularLookups ==
  /\ (pc = "done" /\ call.op = "protocol") =>
       LET rows == {p \in Rows(ProtocolTable) : p.name = call.name}
       IN /\ Cardinality(rows) <= 1
          /\ rows = {} => result = NotFound
          /\ rows /= {} => (result.kind = "ok" /\ rows = {result.value})
  /\ (pc = "done" /\ call.op = "client") =>
       LET rows == {c \in Rows(ClientTable) : c.id = call.id}
       IN /\ Cardinality(rows) <= 1
          /\ rows = {} => result = NotFound
          /\ rows /= {} => (result.kind = "ok" /\ rows = {result.value})
  /\ (pc = "done" /\ call.op = "has_protocol") =>
       (result.kind = "ok" /\ result.value = (ProtocolLookup(call.name).kind = "ok"))
  /\ (pc = "done" /\ call.op = "has_client_id") =>
       (result.kind = "ok" /\ result.value = (ClientLookup(call.id).kind = "ok"))

\* protocol(<unknown name>) has failed with NotFound.
C10_Witness ==
  /\ pc = "done" /\ call.op = "protocol" /\ call.name = Bogus
  /\ result = NotFound

\* ------------------------------------------------------------------ C11
\* The Files objects() selects for a call whose arguments are all legal.
ObjectsSelectedIds(c) ==
  LET chk == ObjectsChecks(c)
  IN Range(ObjectsRetval(chk[1].vs, chk[2].vs, NormalizeModelIds(c.model_ids),
                         chk[3].vs, chk[4].vs, chk[5].vs, chk[6].vs))

\* C11: dumplist calls objects with the user's protocol, purposes, client (as
\* model_ids), groups and classes, writes exactly one line (directory + stem
\* + extension) per File objects returned to standard output, writes nothing
\* when the self-test flag is set, and returns 0 whenever objects does not
\* raise.
C11_DumplistOneLinePerFile ==
  (pc = "done" /\ call.op = "dumplist") =>
    LET asked == [op |-> "objects", protocol |-> call.protocol,
                  purposes |-> call.purposes, model_ids |-> call.client,
                  groups |-> call.groups, classes |-> call.classes,
                  subworld |-> None, gender |-> None]
        raises == Offending(asked) /= {}
    IN /\ ~raises =>
            /\ result = Ok(0)
            /\ Range(r) = ObjectsSelectedIds(asked)
            /\ Cardinality(Range(r)) = Len(r)
       /\ call.selftest => stdout = <<>>
       /\ (~raises /\ ~call.selftest) =>
            /\ Len(stdout) = Len(r)
            /\ \A i \in 1..Len(r) :
                 stdout[i] = call.directory.v \o StemOfFile(r[i])
                               \o call.extension.v \o <<"\n">>

\* Two dev probe Files are listed with a directory and an extension.
C11_Witness ==
  /\ pc = "done" /\ call.op = "dumplist" /\ result = Ok(0)
  /\ ~call.selftest
  /\ call.protocol = One("male") /\ call.purposes = One("probe")
  /\ call.groups = One("dev") /\ call.classes = One("") /\ call.client = None
  /\ call.directory = One(<<"d", "/">>) /\ call.extension = One(<<".", "w">>)
  /\ r = <<3, 1>>
  /\ stdout = << <<"d", "/", "b", ".", "w", "\n">>, <<"d", "/", "a", "2", ".", "w", "\n">> >>

\* ------------------------------------------------------------------ C12
\* C12: for dev/eval groups, purposes = 'probe' and both classes requested
\* (classes unspecified or both named), model_ids never narrows the result:
\* for an empty model_ids, one id or several ids the returned set is the full
\* probe set of the requested protocol, groups and gender.
C12_BothClassesIgnoreModelIds ==
  (/\ ObjectsReturned
   /\ GroupsWithinDevEval(call)
   /\ Given(call.purposes) = {"probe"}
   /\ Requested(call.classes, LegalClasses) = LegalClasses) =>
    /\ ReturnedIds = PurposeFileIds(call, "probe")
    /\ ObjectsIdSets([call EXCEPT !.model_ids = None]) = {ReturnedIds}

\* One model is named, a File of another client is among the probes, and
\* both are returned.
C12_Witness ==
  /\ ObjectsReturned
  /\ call.groups = One("dev") /\ call.purposes = One("probe")
  /\ call.classes = None /\ call.model_ids = Many(<<1>>)
  /\ call.protocol = None /\ call.gender = None
  /\ FilesOfClients({1}) \cap PurposeFileIds(call, "probe") = {1}
  /\ ReturnedIds = {1, 3}

====
